---- MODULE Spec2Model ----
(***************************************************************************)
(* Model of www/scripts/codecheckerviewer/RunHistory.js: the run history   *)
(* pane of the CodeChecker viewer.                                         *)
(*                                                                         *)
(*   initRunHistory          asks the server for the run history;          *)
(*   renderRunHistoryTable   groups the history by calendar day and        *)
(*                           renders one DOM group per day;                *)
(*   onRunHistoryClick       turns a clicked history entry into filter     *)
(*                           settings of the bug filter view;              *)
(*   _formatDate             serialises a Date for the date filter.        *)
(*                                                                         *)
(* JavaScript strings whose characters matter (the time stamps and the     *)
(* formatted dates) are sequences of one-character strings.  Strings that  *)
(* are only built and compared (day labels, tag selectors) are TLA+        *)
(* strings.  The collaborators that are not part of this file (the bug     *)
(* filter view, hashHelper, util, the dialog) are represented by the calls *)
(* they receive and the values handed to them.                             *)
(***************************************************************************)
EXTENDS Integers, Sequences, FiniteSets, TLC

VARIABLES
  hasRunNameFilter,    \* whether bugFilterView._runNameFilter exists
  fetch,               \* "none", "pending", "done": the getRunHistory request
  standBy,             \* "hidden" or "shown": the Standby overlay
  historyData,         \* the argument of the last renderRunHistoryTable call
  historyGroupByDate,  \* the day mapping handed to the rendering loop
  dom,                 \* the history groups appended to this.domNode
  dialog,              \* the 'Check command' dialog
  calls,               \* collaborator calls made by the last onRunHistoryClick
  clicked,             \* the item of the last onRunHistoryClick
  thrown               \* exception that left the last handler, or "none"

vars == <<hasRunNameFilter, fetch, standBy, historyData, historyGroupByDate,
          dom, dialog, calls, clicked, thrown>>

\* Longest history the server returns in the model.
MaxHistory == 3

(***************************************************************************)
(* JavaScript values                                                       *)
(***************************************************************************)

\* The number NaN, which every getter of an Invalid Date returns.
NaN == -1

\* The value undefined (a missing property); no string equals it.
Undefined == << "undefined" >>

\* x + y on numbers.
JsAdd(x, y) == IF x = NaN \/ y = NaN THEN NaN ELSE x + y

\* x > y on numbers: false when either side is NaN.
JsGt(x, y) == x # NaN /\ y # NaN /\ x > y

Digits == << "0", "1", "2", "3", "4", "5", "6", "7", "8", "9" >>

IsDigit(c) == \E d \in 0..9 : Digits[d + 1] = c

DigitValue(c) == CHOOSE d \in 0..9 : Digits[d + 1] = c

RECURSIVE NatChars(_)
NatChars(n) ==
  IF n < 10 THEN << Digits[n + 1] >>
  ELSE NatChars(n \div 10) \o << Digits[(n % 10) + 1] >>

\* String(n) of a non-negative integer or NaN, as characters.
NumChars(n) == IF n = NaN THEN << "N", "a", "N" >> ELSE NatChars(n)

\* String(n) of a non-negative integer or NaN, as a string.
NumStr(n) == IF n = NaN THEN "NaN" ELSE ToString(n)

\* Array.prototype.join with a one-character separator.
RECURSIVE Join(_, _)
Join(parts, sep) ==
  IF Len(parts) = 0 THEN << >>
  ELSE IF Len(parts) = 1 THEN parts[1]
  ELSE parts[1] \o << sep >> \o Join(Tail(parts), sep)

\* s.replace(/ /g, 'T')
ReplaceSpaces(s) == [i \in 1..Len(s) |-> IF s[i] = " " THEN "T" ELSE s[i]]

\* The decimal number written in s[from..to], all of them digits.
RECURSIVE DigitsValue(_, _, _)
DigitsValue(s, from, to) ==
  IF to < from THEN 0
  ELSE 10 * DigitsValue(s, from, to - 1) + DigitValue(s[to])

AllDigits(s, from, to) == \A i \in from..to : IsDigit(s[i])

InvalidDate == [valid |-> FALSE, year |-> NaN, month |-> NaN, date |-> NaN,
                hours |-> NaN, minutes |-> NaN, seconds |-> NaN, ms |-> NaN]

\* Whether s is a date-time form YYYY-MM-DDTHH:MM:SS or YYYY-MM-DDTHH:MM:SS.mmm
\* with every field in its range.
IsDateTimeForm(s) ==
  /\ Len(s) \in {19, 23}
  /\ AllDigits(s, 1, 4) /\ s[5] = "-" /\ AllDigits(s, 6, 7) /\ s[8] = "-"
  /\ AllDigits(s, 9, 10) /\ s[11] = "T"
  /\ AllDigits(s, 12, 13) /\ s[14] = ":" /\ AllDigits(s, 15, 16)
  /\ s[17] = ":" /\ AllDigits(s, 18, 19)
  /\ (Len(s) = 23 => s[20] = "." /\ AllDigits(s, 21, 23))
  /\ DigitsValue(s, 6, 7) \in 1..12
  /\ DigitsValue(s, 9, 10) \in 1..31
  /\ DigitsValue(s, 12, 13) \in 0..23
  /\ DigitsValue(s, 15, 16) \in 0..59
  /\ DigitsValue(s, 18, 19) \in 0..59

\* new Date(s) for a string s: a date-time form without a zone is local time,
\* so the getters return the fields as written (the month zero-based);
\* anything else is an Invalid Date.
NewDate(s) ==
  IF IsDateTimeForm(s)
  THEN [valid   |-> TRUE,
        year    |-> DigitsValue(s, 1, 4),
        month   |-> DigitsValue(s, 6, 7) - 1,
        date    |-> DigitsValue(s, 9, 10),
        hours   |-> DigitsValue(s, 12, 13),
        minutes |-> DigitsValue(s, 15, 16),
        seconds |-> DigitsValue(s, 18, 19),
        ms      |-> IF Len(s) = 23 THEN DigitsValue(s, 21, 23) ELSE 0]
  ELSE InvalidDate

\* new Date(time.replace(/ /g,'T')), for a time that is a string.
ParseTime(time) == NewDate(ReplaceSpaces(time))

(***************************************************************************)
(* util (codechecker/util) and the filter's stateConverter                 *)
(***************************************************************************)

MonthNames == << "January", "February", "March", "April", "May", "June",
                 "July", "August", "September", "October", "November",
                 "December" >>

\* util.getMonthName(month): the name of a zero-based month index.
getMonthName(month) ==
  IF month \in 0..11 THEN MonthNames[month + 1] ELSE "undefined"

\* util.formatDateAMPM(date), util.createRunTag(runName, versionTag) and
\* filter._detectionStatusFilter.stateConverter(status) are kept as the
\* application itself: the model assumes nothing about their results.
formatDateAMPM(date) == << "formatDateAMPM", date >>

createRunTag(runName, versionTag) == << "createRunTag", runName, versionTag >>

stateConverter(status) == << "stateConverter", status >>

(***************************************************************************)
(* _formatDate                                                             *)
(***************************************************************************)

_formatDate(date) ==
  LET mm == JsAdd(date.month, 1)
      dd == date.date
  IN  Join(<< NumChars(date.year),
              (IF JsGt(mm, 9) THEN << >> ELSE << "0" >>) \o NumChars(mm),
              (IF JsGt(dd, 9) THEN << >> ELSE << "0" >>) \o NumChars(dd) >>,
           "-")
      \o << " " >> \o
      Join(<< NumChars(date.hours),
              NumChars(date.minutes),
              NumChars(JsAdd(date.seconds,
                             IF JsGt(date.ms, 0) THEN 1 ELSE 0)) >>,
           ":")

(***************************************************************************)
(* Run history records, as the server supplies them                        *)
(***************************************************************************)

\* An optional property that is missing; like undefined and '' it is falsy.
NoValue == ""

Pad2(n) == (IF n < 10 THEN << "0" >> ELSE << >>) \o NatChars(n)

Pad3(n) == (IF n < 100 THEN << "0" >> ELSE << >>) \o Pad2(n)

\* The server's time stamp: 'YYYY-MM-DD HH:MM:SS', followed by the fraction
\* of a second when there is one.
TimeStamp(y, mo, d, h, mi, s, ms) ==
  NatChars(y) \o << "-" >> \o Pad2(mo) \o << "-" >> \o Pad2(d) \o << " " >>
  \o Pad2(h) \o << ":" >> \o Pad2(mi) \o << ":" >> \o Pad2(s)
  \o (IF ms > 0 THEN << "." >> \o Pad3(ms) ELSE << >>)

Garbage == << "g", "a", "r", "b", "a", "g", "e" >>

RunHistoryData(runName, time, versionTag, checkCommand) ==
  [runName |-> runName, time |-> time, user |-> "alice",
   versionTag |-> versionTag, checkCommand |-> checkCommand]

\* The records the server may return: incremental and tagged entries, on
\* the same and on different days, with and without a fraction of a second,
\* one whose time is no time stamp and one without a time.
HistoryPool ==
  { RunHistoryData("acme", TimeStamp(2024, 6, 5, 10, 15, 30, 0), NoValue,
                   "CodeChecker check -b make"),
    RunHistoryData("acme", TimeStamp(2024, 6, 5, 9, 5, 3, 0), NoValue, NoValue),
    RunHistoryData("acme", TimeStamp(2024, 6, 5, 10, 15, 30, 500), "v1.2",
                   NoValue),
    RunHistoryData("beta", TimeStamp(2024, 6, 6, 23, 59, 59, 900), NoValue,
                   NoValue),
    RunHistoryData("beta", TimeStamp(2023, 12, 31, 10, 15, 30, 250), NoValue,
                   NoValue),
    RunHistoryData("beta", TimeStamp(2024, 7, 5, 8, 0, 0, 0), "v2",
                   "CodeChecker check -b make"),
    RunHistoryData("beta", Garbage, NoValue, NoValue),
    RunHistoryData("acme", Undefined, "v3", NoValue) }

Histories == UNION { [1..n -> HistoryPool] : n \in 0..MaxHistory }

(***************************************************************************)
(* renderRunHistoryTable                                                   *)
(***************************************************************************)

\* The day label of a record whose time is a string.
GroupDate(data) ==
  LET date == ParseTime(data.time)
  IN  NumStr(date.date) \o " " \o getMonthName(date.month) \o ", "
      \o NumStr(date.year)

\* historyGroupByDate is an object: its keys are kept in the order in which
\* they were first set.  It is a sequence of [key, bucket]; a bucket holds
\* the records by reference, as their positions in historyData.
HasKey(map, key) == \E k \in 1..Len(map) : map[k].key = key

\* A variant of PushRecord without the if: the bucket is created anew at
\* every record.
PushRecord_Reset(map, key, ref) ==
  IF HasKey(map, key)
  THEN [k \in 1..Len(map) |->
          IF map[k].key = key THEN [map[k] EXCEPT !.bucket = << ref >>]
          ELSE map[k]]
  ELSE Append(map, [key |-> key, bucket |-> << ref >>])

\* A variant of PushRecord that puts the record in front of its bucket
\* (unshift).
PushRecord_Unshift(map, key, ref) ==
  LET m == IF HasKey(map, key) THEN map
           ELSE Append(map, [key |-> key, bucket |-> << >>])
  IN  [k \in 1..Len(m) |->
         IF m[k].key = key
         THEN [m[k] EXCEPT !.bucket = << ref >> \o @]
         ELSE m[k]]

\* A variant of PushRecord that puts a new key in front of the keys the
\* mapping already has.
PushRecord_NewKeyFirst(map, key, ref) ==
  LET m == IF HasKey(map, key) THEN map
           ELSE << [key |-> key, bucket |-> << >>] >> \o map
  IN  [k \in 1..Len(m) |->
         IF m[k].key = key
         THEN [m[k] EXCEPT !.bucket = Append(@, ref)]
         ELSE m[k]]

\* if (!historyGroupByDate[groupDate]) historyGroupByDate[groupDate] = [];
\* historyGroupByDate[groupDate].push(data);
PushRecord(map, key, ref) ==
  LET m == IF HasKey(map, key) THEN map
           ELSE Append(map, [key |-> key, bucket |-> << >>])
  IN  [k \in 1..Len(m) |->
         IF m[k].key = key
         THEN [m[k] EXCEPT !.bucket = Append(@, ref)]
         ELSE m[k]]

\* historyData.forEach(...) from position i on: data.time.replace throws a
\* TypeError at the first record without a time.
RECURSIVE GroupFrom(_, _, _)
GroupFrom(hd, i, map) ==
  IF i > Len(hd) THEN [thrown |-> "none", map |-> map]
  ELSE IF hd[i].time = Undefined THEN [thrown |-> "TypeError", map |-> map]
  ELSE GroupFrom(hd, i + 1, PushRecord(map, GroupDate(hd[i]), i))

\* The div.history of one record.
HistoryEntry(hd, ref) ==
  LET data == hd[ref]
  IN  [data         |-> ref,
       time         |-> formatDateAMPM(ParseTime(data.time)),
       runName      |-> data.runName,
       runTag       |-> IF data.versionTag # NoValue
                        THEN createRunTag(data.runName, data.versionTag)
                        ELSE << >>,
       user         |-> data.user,
       checkCommand |-> data.checkCommand # NoValue]

\* The div.history-group of one key.
HistoryGroup(hd, entry) ==
  [header  |-> entry.key,
   content |-> [e \in 1..Len(entry.bucket) |-> HistoryEntry(hd, entry.bucket[e])]]

\* renderRunHistoryTable(historyData): the exception it ends with, the
\* mapping the rendering loop iterates and the groups it appends.
renderRunHistoryTable(hd) ==
  LET grouped == GroupFrom(hd, 1, << >>)
  IN  IF grouped.thrown # "none"
      THEN [thrown |-> grouped.thrown, map |-> << >>, groups |-> << >>]
      ELSE [thrown |-> "none", map |-> grouped.map,
            groups |-> [g \in 1..Len(grouped.map) |->
                          HistoryGroup(hd, grouped.map[g])]]

(***************************************************************************)
(* onRunHistoryClick                                                       *)
(***************************************************************************)

\* A call received by a collaborator; its arguments are a tuple of strings.
Call(op, arg) == [op |-> op, arg |-> arg]

\* this.bugFilterView.clearAll();
ResetCalls == << Call("bugFilterView.clearAll", << >>) >>

\* if (filter._runNameFilter) filter._runNameFilter.select(item.runName);
RunNameCalls(item, runNameFilter) ==
  IF runNameFilter
  THEN << Call("_runNameFilter.select", << item.runName >>) >>
  ELSE << >>

\* A variant of DetectionStatuses without REOPENED.
DetectionStatuses_NoReopened == << "NEW", "UNRESOLVED" >>

DetectionStatuses == << "NEW", "UNRESOLVED", "REOPENED" >>

\* [...].forEach(function (status) { filter._detectionStatusFilter.select(
\*   filter._detectionStatusFilter.stateConverter(status)); });
StatusCalls ==
  [k \in 1..Len(DetectionStatuses) |->
     Call("_detectionStatusFilter.select",
          stateConverter(DetectionStatuses[k]))]

\* A variant of DateCalls that signals the filter right after the date.
DateCalls_Notifying(item) ==
  << Call("_detectionDateFilter.initFixedDateInterval",
          _formatDate(ParseTime(item.time))),
     Call("bugFilterView.notifyAll", << >>) >>

\* var date = new Date(item.time.replace(/ /g,'T'));
\* filter._detectionDateFilter.initFixedDateInterval(this._formatDate(date));
DateCalls(item) ==
  << Call("_detectionDateFilter.initFixedDateInterval",
          _formatDate(ParseTime(item.time))) >>

\* A variant of TagCalls that also selects the statuses.
TagCalls_WithStatuses(item) ==
  StatusCalls
  \o << Call("_runHistoryTagFilter.select",
             << item.runName \o ":" \o item.versionTag >>) >>

\* filter._runHistoryTagFilter.select(item.runName + ":" + item.versionTag);
TagCalls(item) ==
  << Call("_runHistoryTagFilter.select",
          << item.runName \o ":" \o item.versionTag >>) >>

\* A variant of FinishCalls that clears the subtab before the signal.
FinishCalls_HashFirst ==
  << Call("hashHelper.setStateValues", << "subtab", "null" >>),
     Call("bugFilterView.notifyAll", << >>) >>

\* this.bugFilterView.notifyAll(); hashHelper.setStateValues({subtab : null});
FinishCalls ==
  << Call("bugFilterView.notifyAll", << >>),
     Call("hashHelper.setStateValues", << "subtab", "null" >>) >>

\* The calls onRunHistoryClick(item) makes, in order, and the exception it
\* ends with; runNameFilter tells whether filter._runNameFilter exists.
\* item.time.replace throws a TypeError when the item has no time.
onRunHistoryClick(item, runNameFilter) ==
  IF item.versionTag = NoValue
  THEN IF item.time = Undefined
       THEN [thrown |-> "TypeError",
             calls  |-> ResetCalls \o RunNameCalls(item, runNameFilter)
                          \o StatusCalls]
       ELSE [thrown |-> "none",
             calls  |-> ResetCalls \o RunNameCalls(item, runNameFilter)
                          \o StatusCalls \o DateCalls(item) \o FinishCalls]
  ELSE [thrown |-> "none",
        calls  |-> ResetCalls \o RunNameCalls(item, runNameFilter)
                     \o TagCalls(item) \o FinishCalls]

(***************************************************************************)
(* The pane as a state machine                                             *)
(***************************************************************************)

NoItem == [runName |-> NoValue, time |-> Undefined, user |-> NoValue,
           versionTag |-> NoValue, checkCommand |-> NoValue]

\* After postCreate: nothing requested, nothing rendered, no click yet.
Init ==
  /\ hasRunNameFilter \in BOOLEAN
  /\ fetch = "none"
  /\ standBy = "hidden"
  /\ historyData = << >>
  /\ historyGroupByDate = << >>
  /\ dom = << >>
  /\ dialog = [content |-> NoValue, shown |-> FALSE]
  /\ calls = << >>
  /\ clicked = NoItem
  /\ thrown = "none"

\* initRunHistory up to the getRunHistory request.  The pane asks for its
\* history once; runIds only narrows what the server returns.
InitRunHistory ==
  /\ fetch = "none"
  /\ fetch' = "pending"
  /\ standBy' = "shown"
  /\ UNCHANGED <<hasRunNameFilter, historyData, historyGroupByDate, dom,
                 dialog, calls, clicked, thrown>>

\* The completion callback of getRunHistory: render, then hide the overlay;
\* an exception of the rendering leaves the callback before the hide.
GetRunHistoryCallback ==
  /\ fetch = "pending"
  /\ \E hd \in Histories :
       LET r == renderRunHistoryTable(hd)
       IN  /\ historyData' = hd
           /\ historyGroupByDate' = r.map
           /\ dom' = dom \o r.groups
           /\ thrown' = r.thrown
           /\ standBy' = IF r.thrown = "none" THEN "hidden" ELSE standBy
  /\ fetch' = "done"
  /\ UNCHANGED <<hasRunNameFilter, dialog, calls, clicked>>

\* The onclick of a rendered entry's wrapper.
OnRunHistoryClick ==
  \E g \in 1..Len(dom) : \E e \in 1..Len(dom[g].content) :
    LET item == historyData[dom[g].content[e].data]
        r    == onRunHistoryClick(item, hasRunNameFilter)
    IN  /\ clicked' = item
        /\ calls' = r.calls
        /\ thrown' = r.thrown
        /\ UNCHANGED <<hasRunNameFilter, fetch, standBy, historyData,
                       historyGroupByDate, dom, dialog>>

\* The onclick of a rendered entry's 'Check command' link.
OnCheckCommandClick ==
  \E g \in 1..Len(dom) : \E e \in 1..Len(dom[g].content) :
    /\ dom[g].content[e].checkCommand
    /\ dialog' = [content |-> historyData[dom[g].content[e].data].checkCommand,
                  shown   |-> TRUE]
    /\ UNCHANGED <<hasRunNameFilter, fetch, standBy, historyData,
                   historyGroupByDate, dom, calls, clicked, thrown>>

Next ==
  \/ InitRunHistory
  \/ GetRunHistoryCallback
  \/ OnRunHistoryClick
  \/ OnCheckCommandClick

Spec == Init /\ [][Next]_vars

(***************************************************************************)
(* Vocabulary of the properties                                            *)
(***************************************************************************)

PredicateOps == { "_runNameFilter.select", "_detectionStatusFilter.select",
                  "_detectionDateFilter.initFixedDateInterval",
                  "_runHistoryTagFilter.select" }

\* The positions of the calls of one operation in the last click.
Positions(op) == { i \in 1..Len(calls) : calls[i].op = op }

PredicatePositions == { i \in 1..Len(calls) : calls[i].op \in PredicateOps }

IsPredicateCall(c) == c.op \in PredicateOps

\* The predicates the last click set, in order.
PredicateCalls == SelectSeq(calls, IsPredicateCall)

\* A click has been handled, on an incremental or on a snapshot record.
Projected == clicked # NoItem

ProjectedIncremental == Projected /\ clicked.versionTag = NoValue

ProjectedSnapshot == Projected /\ clicked.versionTag # NoValue

\* Whether a record's time cannot be parsed.
Unparseable(data) == data.time = Undefined \/ ~ParseTime(data.time).valid

ExpectedRunName == Call("_runNameFilter.select", << clicked.runName >>)

ExpectedStatuses ==
  << Call("_detectionStatusFilter.select", << "stateConverter", "NEW" >>),
     Call("_detectionStatusFilter.select", << "stateConverter", "UNRESOLVED" >>),
     Call("_detectionStatusFilter.select", << "stateConverter", "REOPENED" >>) >>

ExpectedTag ==
  Call("_runHistoryTagFilter.select",
       << clicked.runName \o ":" \o clicked.versionTag >>)

ExpectedDate ==
  Call("_detectionDateFilter.initFixedDateInterval",
       _formatDate(ParseTime(clicked.time)))

\* The date string the last click handed to the date filter.
DateString ==
  LET i == CHOOSE i \in Positions("_detectionDateFilter.initFixedDateInterval") :
             TRUE
  IN  calls[i].arg

\* str.split(sep)
RECURSIVE Split(_, _)
Split(str, sep) ==
  IF \E i \in 1..Len(str) : str[i] = sep
  THEN LET i == CHOOSE i \in 1..Len(str) :
                  str[i] = sep /\ \A j \in 1..(i - 1) : str[j] # sep
       IN  << SubSeq(str, 1, i - 1) >> \o Split(SubSeq(str, i + 1, Len(str)), sep)
  ELSE << str >>

\* The number a field of decimal digits writes, NaN when it is no such field.
FieldValue(f) ==
  IF Len(f) > 0 /\ AllDigits(f, 1, Len(f)) THEN DigitsValue(f, 1, Len(f))
  ELSE NaN

\* The hour, minute and second fields of a date string 'date time'.
TimeFields(str) ==
  LET halves == Split(str, " ")
  IN  IF Len(halves) = 2 THEN Split(halves[2], ":") ELSE << >>

(***************************************************************************)
(* C1 to C4: the calls of onRunHistoryClick                                *)
(***************************************************************************)

\* C1: in every click the filter is reset first (clearAll is the first call
\* and precedes every predicate), and notifyAll is called exactly once, after
\* every predicate of the chosen variant.
C1_ResetApplySignal ==
  Projected =>
    /\ Len(calls) > 0
    /\ Positions("bugFilterView.clearAll") = {1}
    /\ Cardinality(Positions("bugFilterView.notifyAll")) = 1
    /\ PredicatePositions # {}
    /\ \A i \in PredicatePositions :
         \A j \in Positions("bugFilterView.notifyAll") : 1 < i /\ i < j

\* An incremental record was clicked with the run name filter present: five
\* predicates were set between the reset and the signal.
C1_Witness ==
  /\ ProjectedIncremental
  /\ hasRunNameFilter
  /\ Cardinality(PredicatePositions) = 5
  /\ Positions("bugFilterView.notifyAll") # {}

\* C2 as stated: for a record with a version tag the click sets exactly one
\* predicate, the composite tag runName:versionTag, and no run name, status
\* or date predicate.
C2_TagOnly ==
  ProjectedSnapshot => PredicateCalls = << ExpectedTag >>

\* C2 amended: for a record with a version tag the click sets the composite
\* tag runName:versionTag, preceded by the run name predicate exactly when
\* the run name filter exists, and no status or date predicate.
C2_TagAfterRunName ==
  ProjectedSnapshot =>
    PredicateCalls =
      (IF hasRunNameFilter THEN << ExpectedRunName >> ELSE << >>)
      \o << ExpectedTag >>

\* A tagged record was clicked with the run name filter present.
C2_Witness ==
  /\ ProjectedSnapshot
  /\ hasRunNameFilter
  /\ Positions("_runHistoryTagFilter.select") # {}

\* C3 as stated: for a record without a version tag the click sets exactly
\* the run name, the three statuses NEW, UNRESOLVED, REOPENED and the date,
\* and no tag, also when the run name filter is missing.
C3_ThreePredicates ==
  ProjectedIncremental =>
    PredicateCalls =
      << ExpectedRunName >> \o ExpectedStatuses \o << ExpectedDate >>

\* C3 amended: for a record without a version tag the click sets no tag,
\* always sets the statuses NEW, UNRESOLVED, REOPENED and the date formatted
\* from the record's time, and sets the run name exactly when the run name
\* filter exists.
C3_RunNameWhenPresent ==
  ProjectedIncremental =>
    PredicateCalls =
      (IF hasRunNameFilter THEN << ExpectedRunName >> ELSE << >>)
      \o ExpectedStatuses \o << ExpectedDate >>

\* An incremental record was clicked while the run name filter is missing.
C3_Witness ==
  /\ ProjectedIncremental
  /\ ~hasRunNameFilter
  /\ Positions("_detectionDateFilter.initFixedDateInterval") # {}

\* C4: a click on an incremental record whose time cannot be parsed fails
\* atomically: an exception leaves the handler and no call reaches the filter
\* or the hash state.
C4_AtomicFailure ==
  (ProjectedIncremental /\ Unparseable(clicked)) =>
    (thrown # "none" /\ calls = << >>)

(***************************************************************************)
(* C5, C6: _formatDate                                                     *)
(***************************************************************************)

\* C5: for a parsed time stamp the time of day in the date string is the
\* source time, one second later when the fraction of a second is not zero,
\* with the carry into minutes and hours: hh:mm:59 with a fraction is
\* rendered as the next minute and second 00, never as second 60.
C5_SecondsCarry ==
  (ProjectedIncremental /\ ~Unparseable(clicked)) =>
    LET d == ParseTime(clicked.time)
        t == d.hours * 3600 + d.minutes * 60 + d.seconds
             + (IF d.ms > 0 THEN 1 ELSE 0)
        f == TimeFields(DateString)
    IN  /\ Len(f) = 3
        /\ FieldValue(f[1]) = (t \div 3600) % 24
        /\ FieldValue(f[2]) = (t \div 60) % 60
        /\ FieldValue(f[3]) = t % 60

\* C6: for a parsed time stamp the date string has the shape
\* YYYY-MM-DD HH:MM:SS, every field but the year of exactly two digits, the
\* month one-based.
C6_ExactShape ==
  (ProjectedIncremental /\ ~Unparseable(clicked)) =>
    LET str == DateString
    IN  /\ Len(str) = 19
        /\ AllDigits(str, 1, 4) /\ str[5] = "-"
        /\ AllDigits(str, 6, 7) /\ str[8] = "-"
        /\ AllDigits(str, 9, 10) /\ str[11] = " "
        /\ AllDigits(str, 12, 13) /\ str[14] = ":"
        /\ AllDigits(str, 15, 16) /\ str[17] = ":"
        /\ AllDigits(str, 18, 19)
        /\ DigitsValue(str, 6, 7) = ParseTime(clicked.time).month + 1

(***************************************************************************)
(* C7 to C9: the grouping of renderRunHistoryTable                         *)
(***************************************************************************)

\* renderRunHistoryTable has returned without an exception.
Rendered == fetch = "done" /\ standBy = "hidden"

\* The places (bucket, position) of the mapping that hold record ref.
Places(ref) ==
  { kp \in (1..Len(historyGroupByDate)) \X (1..Len(historyData)) :
      /\ kp[2] <= Len(historyGroupByDate[kp[1]].bucket)
      /\ historyGroupByDate[kp[1]].bucket[kp[2]] = ref }

RECURSIVE BucketTotal(_)
BucketTotal(map) ==
  IF Len(map) = 0 THEN 0 ELSE Len(map[1].bucket) + BucketTotal(Tail(map))

\* The bucket that holds record ref.
BucketOf(ref) == CHOOSE k \in 1..Len(historyGroupByDate) :
                   \E p \in 1..Len(historyGroupByDate[k].bucket) :
                     historyGroupByDate[k].bucket[p] = ref

\* Two records of the input fall on the same calendar day: both times are
\* time stamps and their date parts are the same.
SameDay(i, j) ==
  /\ ~Unparseable(historyData[i]) /\ ~Unparseable(historyData[j])
  /\ SubSeq(historyData[i].time, 1, 10) = SubSeq(historyData[j].time, 1, 10)

\* C7: the grouping neither drops nor duplicates a record: every record of
\* the input is in exactly one place of the mapping, and the buckets hold as
\* many records as the input.
C7_NoDropNoDuplicate ==
  Rendered =>
    /\ \A ref \in 1..Len(historyData) : Cardinality(Places(ref)) = 1
    /\ BucketTotal(historyGroupByDate) = Len(historyData)

\* Three records were grouped into two buckets.
C7_Witness ==
  /\ Rendered
  /\ Len(historyData) = 3
  /\ Len(historyGroupByDate) = 2

\* C8: records of the same calendar day are in the same bucket, and every
\* bucket holds its records in their input order, however the records of
\* other days are interleaved.
C8_SameDaySameBucketInOrder ==
  Rendered =>
    /\ \A i, j \in 1..Len(historyData) :
         SameDay(i, j) =>
           /\ Places(i) # {} /\ Places(j) # {}
           /\ BucketOf(i) = BucketOf(j)
    /\ \A k \in 1..Len(historyGroupByDate) :
         \A p, q \in 1..Len(historyGroupByDate[k].bucket) :
           p < q => historyGroupByDate[k].bucket[p]
                      < historyGroupByDate[k].bucket[q]

\* Two different records of one day were grouped with a record of another
\* day between them.
C8_Witness ==
  /\ Rendered
  /\ Len(historyData) = 3
  /\ SameDay(1, 3)
  /\ historyData[1] # historyData[3]
  /\ ~Unparseable(historyData[2])
  /\ ~SameDay(1, 2)

\* C9: a record whose time cannot be parsed aborts the grouping as a whole:
\* the rendering ends with an exception, no mapping is produced and nothing
\* is rendered.
C9_UnparseableAborts ==
  (fetch = "done" /\ \E i \in 1..Len(historyData) : Unparseable(historyData[i]))
    => (~Rendered /\ historyGroupByDate = << >> /\ dom = << >>)

(***************************************************************************)
(* C10: the hash state                                                     *)
(***************************************************************************)

\* C10: every click that ends without an exception clears the subtab of the
\* hash state exactly once, as its last call and after notifyAll, for both
\* variants.
C10_SubtabClearedOnceAfterNotify ==
  (Projected /\ thrown = "none") =>
    /\ Len(calls) > 0
    /\ Positions("hashHelper.setStateValues") = { Len(calls) }
    /\ calls[Len(calls)].arg = << "subtab", "null" >>
    /\ Positions("bugFilterView.notifyAll") # {}
    /\ \A j \in Positions("bugFilterView.notifyAll") : j < Len(calls)

\* A tagged record was clicked successfully while the run name filter is
\* missing.
C10_Witness ==
  /\ ProjectedSnapshot
  /\ ~hasRunNameFilter
  /\ thrown = "none"
  /\ Positions("hashHelper.setStateValues") # {}

(***************************************************************************)
(* C11: the keys of the day mapping                                        *)
(***************************************************************************)

\* The day labels of the records hd[1..n], each once, in the order in which
\* the scan from the left meets it first.
RECURSIVE FirstSeenLabels(_, _)
FirstSeenLabels(hd, n) ==
  IF n = 0 THEN << >>
  ELSE LET before == FirstSeenLabels(hd, n - 1)
           label  == GroupDate(hd[n])
       IN  IF \E k \in 1..Len(before) : before[k] = label
           THEN before
           ELSE Append(before, label)

\* The keys of the mapping, in iteration order.
Keys == [k \in 1..Len(historyGroupByDate) |-> historyGroupByDate[k].key]

\* C11: the mapping has exactly one key for every day label of the input, in
\* the order in which the labels are first seen, and no empty bucket; one
\* group is rendered per key, in that order; an empty input gives an empty
\* mapping and no group.
C11_KeysInFirstSeenOrder ==
  Rendered =>
    /\ Keys = FirstSeenLabels(historyData, Len(historyData))
    /\ \A k, l \in 1..Len(Keys) : Keys[k] = Keys[l] => k = l
    /\ \A k \in 1..Len(historyGroupByDate) :
         Len(historyGroupByDate[k].bucket) > 0
    /\ Len(dom) = Len(Keys)
    /\ \A g \in 1..Len(dom) : dom[g].header = Keys[g]
    /\ (historyData = << >> => historyGroupByDate = << >> /\ dom = << >>)

\* Three records were grouped whose first and third have one label and whose
\* second has another: two keys, the first record's label first.
C11_Witness ==
  /\ Rendered
  /\ Len(historyData) = 3
  /\ GroupDate(historyData[1]) = GroupDate(historyData[3])
  /\ GroupDate(historyData[1]) # GroupDate(historyData[2])
  /\ Len(historyGroupByDate) = 2
  /\ historyGroupByDate[1].key = GroupDate(historyData[1])

====
